---- MODULE Spec2Model ----
(***************************************************************************)
(* Bot-detection and access-control pipeline of the server promoter        *)
(* (Express + sqlite3): blacklist guard, heuristic scorer, reputation      *)
(* store, CAPTCHA challenges, vote window guard, security events.          *)
(*                                                                         *)
(* Strings whose content the code inspects (user-agent, connection, ip,    *)
(* stored solutions, hashes) are sequences of one-character strings.       *)
(* Every sqlite statement is one atomic step; a statement the code issues  *)
(* without waiting for it (db.run with no continuation that the response   *)
(* depends on) sits in `pending` until the database executes it.           *)
(***************************************************************************)
EXTENDS Integers, Sequences, FiniteSets, Bags, TLC

(***************************************************************************)
(* Bounds of the model                                                     *)
(***************************************************************************)
\* last instant of the model clock (minutes since the start of day 0)
MaxTime == 5
\* length of a calendar day in clock minutes (scaled down so that a day
\* boundary falls inside MaxTime)
MinutesPerDay == 5
\* number of challenge ids uuidv4 can hand out
MaxChallenges == 2
\* requests the model lets through the access pipeline in one behaviour
MaxRequests == 2
\* verify requests in one behaviour
MaxVerifies == 2
\* vote requests in one behaviour
MaxVotes == 3
\* blacklist requests in one behaviour
MaxAdmin == 1
\* statements and lookups the store fails in one behaviour
MaxFailures == 2

(***************************************************************************)
(* Characters and strings                                                  *)
(***************************************************************************)
\* the printable ASCII characters, code 32 first
Printable ==
  <<" ", "!", "\"", "#", "$", "%", "&", "'", "(", ")", "*", "+", ",", "-", ".", "/", "0",
    "1", "2", "3", "4", "5", "6", "7", "8", "9", ":", ";", "<", "=", ">", "?", "@", "A",
    "B", "C", "D", "E", "F", "G", "H", "I", "J", "K", "L", "M", "N", "O", "P", "Q", "R",
    "S", "T", "U", "V", "W", "X", "Y", "Z", "[", "\\", "]", "^", "_", "(backtick)", "a", "b", "c",
    "d", "e", "f", "g", "h", "i", "j", "k", "l", "m", "n", "o", "p", "q", "r", "s", "t",
    "u", "v", "w", "x", "y", "z", "{", "|", "}", "~">>

\* String.prototype.charCodeAt for one character
CharCodes ==
  [c \in {Printable[i] : i \in 1..Len(Printable)} |->
     31 + (CHOOSE i \in 1..Len(Printable) : Printable[i] = c)]
charCodeAt(c) == CharCodes[c]

\* String.prototype.toLowerCase
toLowerCase(s) ==
  [i \in 1..Len(s) |->
     LET k == charCodeAt(s[i])
     IN  IF k >= 65 /\ k <= 90 THEN Printable[k + 32 - 31] ELSE s[i]]

\* s contains the literal t
Includes(s, t) ==
  \E i \in 0..(Len(s) - Len(t)) : \A j \in 1..Len(t) : s[i + j] = t[j]

\* RegExp.prototype.test for a case-insensitive alternation of literals
TestAnyI(literals, s) == \E t \in literals : Includes(toLowerCase(s), t)

RECURSIVE Digits(_)
\* decimal digits of n >= 0
Digits(n) ==
  IF n < 10 THEN <<Printable[n + 17]>>
  ELSE Digits(n \div 10) \o <<Printable[(n % 10) + 17]>>

RECURSIVE NegDigits(_)
\* decimal digits of |n| for n < 0, computed without negating n
NegDigits(n) ==
  LET d == (10 - (n % 10)) % 10
      rest == (n + d) \div 10
  IN  IF rest = 0 THEN <<Printable[d + 17]>>
      ELSE NegDigits(rest) \o <<Printable[d + 17]>>

\* Number.prototype.toString / String(n) for an integer
NumberToString(n) == IF n < 0 THEN <<"-">> \o NegDigits(n) ELSE Digits(n)

(***************************************************************************)
(* Requests                                                                *)
(***************************************************************************)
UA_None    == <<>>
UA_Curl    == <<"c", "u", "r", "l", "/", "7", ".", "6", "8", ".", "0">>
UA_Short   == <<"M", "o", "z", "i", "l", "l", "a", "/", "5", ".", "0">>
UA_Browser == <<"M", "o", "z", "i", "l", "l", "a", "/", "5", ".", "0", " ", "C", "h",
                "r", "o", "m", "e", "/", "1", "2", "0">>
UA_Googlebot == <<"M", "o", "z", "i", "l", "l", "a", "/", "5", ".", "0", " ", "G", "o",
                  "o", "g", "l", "e", "b", "o", "t">>
\* two user-agent strings a client may send
UA_Aa == <<"A", "a">>
UA_BB == <<"B", "B">>
UserAgents == {UA_None, UA_Curl, UA_Short, UA_Browser, UA_Googlebot}

IP_A == <<"1", "0", ".", "0", ".", "0", ".", "1">>
IP_B == <<"1", "0", ".", "0", ".", "0", ".", "2">>
IPs  == {IP_A, IP_B}

Conn_None      == <<>>
Conn_close     == <<"c", "l", "o", "s", "e">>
Conn_Close     == <<"C", "l", "o", "s", "e">>
Conn_keepalive == <<"k", "e", "e", "p", "-", "a", "l", "i", "v", "e">>
Connections == {Conn_None, Conn_close, Conn_Close, Conn_keepalive}

\* every header bag, method and path the scorer is tried on; an absent header
\* is the empty string, which is what `req.get(h) || ''` makes of it
AllRequests ==
  [ua : UserAgents,
   accept : {"", "*/*", "text/html"},
   acceptLanguage : {"", "en-US"},
   acceptEncoding : {"", "gzip"},
   connection : Connections,
   referer : {"", "http://localhost:3000/"},
   xRequestedWith : {"", "XMLHttpRequest"},
   method : {"GET", "POST"},
   path : {"/", "/api/servers/1/vote"}]

(***************************************************************************)
(* Heuristic scorer                                                        *)
(***************************************************************************)
botPatterns ==
  { <<"b", "o", "t">>, <<"c", "r", "a", "w", "l", "e", "r">>,
    <<"s", "p", "i", "d", "e", "r">>, <<"s", "c", "r", "a", "p", "e", "r">>,
    <<"c", "u", "r", "l">>, <<"w", "g", "e", "t">>,
    <<"p", "y", "t", "h", "o", "n">>, <<"j", "a", "v", "a">>,
    <<"a", "p", "a", "c", "h", "e">>, <<"h", "t", "t", "p">>,
    <<"l", "i", "b", "w", "w", "w">>, <<"p", "e", "r", "l">>,
    <<"p", "h", "p">>, <<"r", "u", "b", "y">>,
    <<"g", "o", "-", "h", "t", "t", "p">>, <<"n", "o", "d", "e">>,
    <<"a", "x", "i", "o", "s">>, <<"r", "e", "q", "u", "e", "s", "t", "s">> }

browserTokens ==
  { <<"m", "o", "z", "i", "l", "l", "a">>, <<"c", "h", "r", "o", "m", "e">>,
    <<"s", "a", "f", "a", "r", "i">>, <<"f", "i", "r", "e", "f", "o", "x">>,
    <<"e", "d", "g", "e">> }

\* the pattern tests, tabulated once per user-agent and connection value
MatchesBotPattern == [ua \in UserAgents |-> TestAnyI(botPatterns, ua)]
MatchesBrowserToken == [ua \in UserAgents |-> TestAnyI(browserTokens, ua)]
LowerConnection == [c \in Connections |-> toLowerCase(c)]

\* mutant: an automation signature in the user-agent is worth 20 points only
RawBotScore_WeakSignature(req) ==
    (IF MatchesBotPattern[req.ua] THEN 20 ELSE 0)
  + (IF req.accept = "" \/ req.accept = "*/*" THEN 10 ELSE 0)
  + (IF req.acceptLanguage = "" THEN 15 ELSE 0)
  + (IF req.acceptEncoding = "" THEN 10 ELSE 0)
  + (IF req.ua = <<>> THEN 25 ELSE 0)
  + (IF Len(req.ua) < 20 THEN 20 ELSE 0)
  + (IF ~MatchesBrowserToken[req.ua] /\ req.ua # <<>> THEN 15 ELSE 0)
  + (IF req.referer = "" /\ req.path # "/" THEN 5 ELSE 0)
  + (IF LowerConnection[req.connection] = Conn_close THEN 5 ELSE 0)
  + (IF req.xRequestedWith = "" /\ req.method = "POST" THEN 5 ELSE 0)

\* the sum of the point rules that fire, before the cap
RawBotScore(req) ==
    (IF MatchesBotPattern[req.ua] THEN 30 ELSE 0)
  + (IF req.accept = "" \/ req.accept = "*/*" THEN 10 ELSE 0)
  + (IF req.acceptLanguage = "" THEN 15 ELSE 0)
  + (IF req.acceptEncoding = "" THEN 10 ELSE 0)
  + (IF req.ua = <<>> THEN 25 ELSE 0)
  + (IF Len(req.ua) < 20 THEN 20 ELSE 0)
  + (IF ~MatchesBrowserToken[req.ua] /\ req.ua # <<>> THEN 15 ELSE 0)
  + (IF req.referer = "" /\ req.path # "/" THEN 5 ELSE 0)
  + (IF LowerConnection[req.connection] = Conn_close THEN 5 ELSE 0)
  + (IF req.xRequestedWith = "" /\ req.method = "POST" THEN 5 ELSE 0)

Min(a, b) == IF a < b THEN a ELSE b

\* mutant: the cap of the score at 100 is forgotten
calculateBotScore_NoCap(req) == RawBotScore(req)

calculateBotScore(req) == Min(RawBotScore(req), 100)

(***************************************************************************)
(* Timestamps as sqlite stores and compares them (TEXT, memcmp order)      *)
(***************************************************************************)
\* datetime('now') and CURRENT_TIMESTAMP: "YYYY-MM-DD HH:MM:SS"
SqliteDatetime(t) == <<t \div MinutesPerDay, " ", t % MinutesPerDay>>

\* Date.prototype.toISOString: "YYYY-MM-DDTHH:MM:SS.sssZ"
toISOString(t) == <<t \div MinutesPerDay, "T", t % MinutesPerDay>>

\* strftime('%Y-%m-%d', CURRENT_TIMESTAMP)
SqliteDate(t) == t \div MinutesPerDay

\* a > b on two timestamp texts: the date, then the separator character,
\* then the time of day
TextGreater(a, b) ==
  \/ a[1] > b[1]
  \/ /\ a[1] = b[1]
     /\ \/ charCodeAt(a[2]) > charCodeAt(b[2])
        \/ a[2] = b[2] /\ a[3] > b[3]

\* the instant a timestamp text denotes
InstantOf(text) == text[1] * MinutesPerDay + text[3]

\* SQL NULL
NULL == <<>>

(***************************************************************************)
(* State                                                                   *)
(***************************************************************************)
VARIABLES
  now,                \* the clock, in minutes
  ip_blacklist,       \* table: ip_address -> [blocked_until, created_by]
  bot_scores,         \* table: <<ip_address, user_agent>> -> row
  captcha_challenges, \* table: challenge_id -> row
  security_events,    \* table: bag of rows (row ids and created_at left out)
  votes,              \* table: set of rows, UNIQUE(server_id, voter_hash, voted_date)
  servers,            \* table: id -> votes
  pending,            \* bag of statements issued to sqlite and not yet executed
  resp,               \* what the last finished handler answered
  served,             \* requests taken so far, by handler, and store failures so far
  verifyTrue,         \* challenge_id -> number of verifyCaptcha calls resolved true
  challenged,         \* <<ip, req>> answered CAPTCHA_REQUIRED so far
  issuedAfter,        \* challenge_id -> the <<ip, req>> of its address challenged before it was issued
  cleared,            \* <<ip, req>> whose client solved such a challenge, amnesty executed
  tally,              \* vote key -> [asked, accepted, denied]
  voters,             \* [ip, ua, key] of the vote requests whose row was inserted
  input,              \* the request a scorer run is applied to
  output              \* what calculateBotScore returned for it: <<>> or <<score>>

tables == <<ip_blacklist, bot_scores, captcha_challenges, security_events, votes, servers>>
history == <<verifyTrue, challenged, issuedAfter, cleared, tally, voters>>
scorer == <<input, output>>
vars == <<now, tables, pending, resp, served, history, scorer>>

ChallengeIds == 1..MaxChallenges

\* db.run / db.get hand a statement to sqlite
One(stmt) == SetToBag({stmt})
Issue(stmts) == pending (+) stmts

\* the database as created by db.serialize(...), with one server listed
InitTables ==
  /\ now = 0
  /\ ip_blacklist = <<>>
  /\ bot_scores = <<>>
  /\ captcha_challenges = <<>>
  /\ security_events = EmptyBag
  /\ votes = {}
  /\ servers = (1 :> 0)
  /\ pending = EmptyBag
  /\ resp = [kind |-> "none"]
  /\ served = [pipeline |-> 0, verify |-> 0, vote |-> 0, admin |-> 0, failed |-> 0]
  /\ verifyTrue = [c \in ChallengeIds |-> 0]
  /\ challenged = {}
  /\ issuedAfter = <<>>
  /\ cleared = {}
  /\ tally = <<>>
  /\ voters = {}

Init ==
  /\ InitTables
  /\ input = CHOOSE r \in AllRequests : TRUE
  /\ output = <<>>

InitScore ==
  /\ InitTables
  /\ input \in AllRequests
  /\ output = <<>>

\* one evaluation of calculateBotScore(req)
ScoreInput ==
  /\ output = <<>>
  /\ output' = <<calculateBotScore(input)>>
  /\ UNCHANGED <<now, tables, pending, resp, served, history, input>>

\* the clock advances
Tick ==
  /\ now < MaxTime
  /\ now' = now + 1
  /\ UNCHANGED <<tables, pending, resp, served, history, scorer>>


(***************************************************************************)
(* Security event sink                                                     *)
(***************************************************************************)
\* mutant: every event is written with severity high
logSecurityEvent_AlwaysHigh(ip, userId, eventType, severity) ==
  [op |-> "logEvent", ip_address |-> ip, user_id |-> userId,
   event_type |-> eventType, severity |-> "high"]

\* the INSERT INTO security_events statement logSecurityEvent issues
logSecurityEvent(ip, userId, eventType, severity) ==
  [op |-> "logEvent", ip_address |-> ip, user_id |-> userId,
   event_type |-> eventType, severity |-> severity]

\* sqlite executes a queued INSERT INTO security_events
ExecLogEvent ==
  \E w \in BagToSet(pending) :
    /\ w.op = "logEvent"
    /\ security_events' = security_events (+) One(
         [ip_address |-> w.ip_address, user_id |-> w.user_id,
          event_type |-> w.event_type, severity |-> w.severity])
    /\ pending' = pending (-) One(w)
    /\ UNCHANGED <<now, ip_blacklist, bot_scores, captcha_challenges, votes, servers,
                   resp, served, history, scorer>>

(***************************************************************************)
(* Blacklist guard and the admin blacklist endpoint                        *)
(***************************************************************************)
\* mutant: the guard forgets the permanent entries (blocked_until IS NULL)
isBlacklisted_NoPermanent(ip) ==
  /\ ip \in DOMAIN ip_blacklist
  /\ ip_blacklist[ip].blocked_until # NULL
  /\ TextGreater(ip_blacklist[ip].blocked_until, SqliteDatetime(now))

\* SELECT * FROM ip_blacklist WHERE ip_address = ? AND
\*   (blocked_until IS NULL OR blocked_until > datetime("now"))
isBlacklisted(ip) ==
  /\ ip \in DOMAIN ip_blacklist
  /\ \/ ip_blacklist[ip].blocked_until = NULL
     \/ TextGreater(ip_blacklist[ip].blocked_until, SqliteDatetime(now))

\* the blacklist row of ip is in force by the clock: it has no blocked_until,
\* or its blocked_until is an instant after now
ActiveEntry(ip) ==
  /\ ip \in DOMAIN ip_blacklist
  /\ \/ ip_blacklist[ip].blocked_until = NULL
     \/ InstantOf(ip_blacklist[ip].blocked_until) > now

Sessions ==
  { [userId |-> 0, userRole |-> "none"],
    [userId |-> 1, userRole |-> "admin"],
    [userId |-> 2, userRole |-> "user"] }

\* minutes an admin asks a ban to last; 0 (or no duration) asks for a permanent one
Durations == {0, 1}

\* mutant: any logged-in session passes
requireAdmin_AnyUser(session) == IF session.userId = 0 THEN 401 ELSE 0

\* requireAdmin: the status it answers with, 0 when it calls next()
requireAdmin(session) ==
  IF session.userId = 0 THEN 401
  ELSE IF session.userRole # "admin" THEN 403
  ELSE 0

\* POST /api/security/blacklist behind requireAdmin
AdminBlacklist(session, ip, reason, duration) ==
  /\ served.admin < MaxAdmin
  /\ served' = [served EXCEPT !.admin = @ + 1]
  /\ IF requireAdmin(session) # 0
       THEN /\ resp' = [kind |-> "blacklist", status |-> requireAdmin(session),
                        session |-> session]
            /\ UNCHANGED <<ip_blacklist, pending>>
     ELSE IF ip = <<>> \/ reason = ""
       THEN /\ resp' = [kind |-> "blacklist", status |-> 400, session |-> session]
            /\ UNCHANGED <<ip_blacklist, pending>>
     ELSE LET blockedUntil == IF duration # 0 THEN toISOString(now + duration) ELSE NULL
          IN  /\ ip_blacklist' =
                   (ip :> [blocked_until |-> blockedUntil, created_by |-> session.userId])
                   @@ ip_blacklist
              /\ pending' = Issue(One(logSecurityEvent(ip, session.userId, "ip_blacklisted", "high")))
              /\ resp' = [kind |-> "blacklist", status |-> 200, session |-> session]
  /\ UNCHANGED <<now, bot_scores, captcha_challenges, security_events, votes, servers,
                 history, scorer>>

(***************************************************************************)
(* Reputation store                                                        *)
(***************************************************************************)
\* the INSERT OR REPLACE INTO bot_scores statement updateBotScore issues
updateBotScore(ip, req) ==
  [op |-> "upsertScore", ip_address |-> ip, user_agent |-> req.ua,
   bot_score |-> calculateBotScore(req)]

\* mutant: the stored score keeps the highest score seen for the key
ExecUpsertScore_KeepsHighest ==
  \E w \in BagToSet(pending) :
    /\ w.op = "upsertScore"
    /\ LET key == <<w.ip_address, w.user_agent>>
           old == IF key \in DOMAIN bot_scores
                    THEN bot_scores[key]
                    ELSE [bot_score |-> 0, request_count |-> 0, suspicious_patterns |-> 0]
       IN  bot_scores' =
             (key :> [bot_score |-> IF old.bot_score > w.bot_score
                                      THEN old.bot_score ELSE w.bot_score,
                      request_count |-> old.request_count + 1,
                      suspicious_patterns |->
                        old.suspicious_patterns + (IF w.bot_score > 50 THEN 1 ELSE 0)])
             @@ bot_scores
    /\ pending' = pending (-) One(w)
    /\ UNCHANGED <<now, ip_blacklist, captcha_challenges, security_events, votes, servers,
                   resp, served, history, scorer>>

\* sqlite executes a queued INSERT OR REPLACE INTO bot_scores
ExecUpsertScore ==
  \E w \in BagToSet(pending) :
    /\ w.op = "upsertScore"
    /\ LET key == <<w.ip_address, w.user_agent>>
           old == IF key \in DOMAIN bot_scores
                    THEN bot_scores[key]
                    ELSE [request_count |-> 0, suspicious_patterns |-> 0]
       IN  bot_scores' =
             (key :> [bot_score |-> w.bot_score,
                      request_count |-> old.request_count + 1,
                      suspicious_patterns |->
                        old.suspicious_patterns + (IF w.bot_score > 50 THEN 1 ELSE 0)])
             @@ bot_scores
    /\ pending' = pending (-) One(w)
    /\ UNCHANGED <<now, ip_blacklist, captcha_challenges, security_events, votes, servers,
                   resp, served, history, scorer>>

(***************************************************************************)
(* Access decision pipeline                                                *)
(***************************************************************************)
GatedPath == "/api/servers/1/vote"

\* the requests the pipeline is driven with: POSTs to a gated route
ReqBrowser ==
  [ua |-> UA_Browser, accept |-> "text/html", acceptLanguage |-> "en-US",
   acceptEncoding |-> "gzip", connection |-> Conn_keepalive,
   referer |-> "http://localhost:3000/", xRequestedWith |-> "XMLHttpRequest",
   method |-> "POST", path |-> GatedPath]
ReqShort ==
  [ua |-> UA_Short, accept |-> "*/*", acceptLanguage |-> "", acceptEncoding |-> "",
   connection |-> Conn_keepalive, referer |-> "", xRequestedWith |-> "XMLHttpRequest",
   method |-> "POST", path |-> GatedPath]
ReqBare ==
  [ua |-> UA_None, accept |-> "", acceptLanguage |-> "", acceptEncoding |-> "",
   connection |-> Conn_keepalive, referer |-> "http://localhost:3000/",
   xRequestedWith |-> "XMLHttpRequest", method |-> "POST", path |-> GatedPath]
ReqCurl ==
  [ua |-> UA_Curl, accept |-> "", acceptLanguage |-> "", acceptEncoding |-> "",
   connection |-> Conn_None, referer |-> "", xRequestedWith |-> "",
   method |-> "POST", path |-> GatedPath]
SampleRequests == {ReqBrowser, ReqShort, ReqBare, ReqCurl}

\* mutant: the challenge band starts above 80
ChallengeBand_Strict(botScore) == botScore > 80

\* if (botScore >= 80)
ChallengeBand(botScore) == botScore >= 80

\* else if (botScore >= 60)
FlagBand(botScore) == botScore >= 60

\* mutant: the decision is taken on the score the store holds for the key
botDetectionMiddleware_StoredScore(ip, req) ==
  /\ served.pipeline < MaxRequests
  /\ served' = [served EXCEPT !.pipeline = @ + 1]
  /\ LET blacklisted == isBlacklisted(ip)
         botScore == IF <<ip, req.ua>> \in DOMAIN bot_scores
                       THEN bot_scores[<<ip, req.ua>>].bot_score
                       ELSE calculateBotScore(req)
         seen == [kind |-> "pipeline", ip |-> ip, req |-> req,
                  lookupFailed |-> FALSE,
                  blacklisted |-> blacklisted,
                  active |-> ActiveEntry(ip),
                  retry |-> (<<ip, req>> \in cleared /\ BagToSet(pending) = {})]
     IN  IF blacklisted
           THEN /\ pending' = Issue(One(logSecurityEvent(ip, 0, "blocked_request", "high")))
                /\ resp' = seen @@ [status |-> 403, code |-> "IP_BLACKLISTED",
                                    botScore |-> <<>>, next |-> FALSE, suspicious |-> FALSE]
                /\ UNCHANGED challenged
         ELSE IF ChallengeBand(botScore)
           THEN /\ pending' = Issue(One(updateBotScore(ip, req))
                                (+) One(logSecurityEvent(ip, 0, "bot_detected", "high")))
                /\ resp' = seen @@ [status |-> 429, code |-> "CAPTCHA_REQUIRED",
                                    botScore |-> <<botScore>>, next |-> FALSE,
                                    suspicious |-> FALSE]
                /\ challenged' = challenged \cup {<<ip, req>>}
         ELSE IF FlagBand(botScore)
           THEN /\ pending' = Issue(One(updateBotScore(ip, req))
                                (+) One(logSecurityEvent(ip, 0, "suspicious_behavior", "medium")))
                /\ resp' = seen @@ [status |-> 0, code |-> "", botScore |-> <<botScore>>,
                                    next |-> TRUE, suspicious |-> TRUE]
                /\ UNCHANGED challenged
         ELSE   /\ pending' = Issue(One(updateBotScore(ip, req)))
                /\ resp' = seen @@ [status |-> 0, code |-> "", botScore |-> <<botScore>>,
                                    next |-> TRUE, suspicious |-> FALSE]
                /\ UNCHANGED challenged
  /\ UNCHANGED <<now, tables, verifyTrue, issuedAfter, cleared, tally, voters, scorer>>

\* mutant: the request is scored before the blacklist is consulted
botDetectionMiddleware_ScoresFirst(ip, req) ==
  /\ served.pipeline < MaxRequests
  /\ served' = [served EXCEPT !.pipeline = @ + 1]
  /\ LET blacklisted == isBlacklisted(ip)
         botScore == calculateBotScore(req)
         seen == [kind |-> "pipeline", ip |-> ip, req |-> req,
                  lookupFailed |-> FALSE,
                  blacklisted |-> blacklisted,
                  active |-> ActiveEntry(ip),
                  retry |-> (<<ip, req>> \in cleared /\ BagToSet(pending) = {})]
     IN  IF blacklisted
           THEN /\ pending' = Issue(One(updateBotScore(ip, req))
                                (+) One(logSecurityEvent(ip, 0, "blocked_request", "high")))
                /\ resp' = seen @@ [status |-> 403, code |-> "IP_BLACKLISTED",
                                    botScore |-> <<>>, next |-> FALSE, suspicious |-> FALSE]
                /\ UNCHANGED challenged
         ELSE IF ChallengeBand(botScore)
           THEN /\ pending' = Issue(One(updateBotScore(ip, req))
                                (+) One(logSecurityEvent(ip, 0, "bot_detected", "high")))
                /\ resp' = seen @@ [status |-> 429, code |-> "CAPTCHA_REQUIRED",
                                    botScore |-> <<botScore>>, next |-> FALSE,
                                    suspicious |-> FALSE]
                /\ challenged' = challenged \cup {<<ip, req>>}
         ELSE IF FlagBand(botScore)
           THEN /\ pending' = Issue(One(updateBotScore(ip, req))
                                (+) One(logSecurityEvent(ip, 0, "suspicious_behavior", "medium")))
                /\ resp' = seen @@ [status |-> 0, code |-> "", botScore |-> <<botScore>>,
                                    next |-> TRUE, suspicious |-> TRUE]
                /\ UNCHANGED challenged
         ELSE   /\ pending' = Issue(One(updateBotScore(ip, req)))
                /\ resp' = seen @@ [status |-> 0, code |-> "", botScore |-> <<botScore>>,
                                    next |-> TRUE, suspicious |-> FALSE]
                /\ UNCHANGED challenged
  /\ UNCHANGED <<now, tables, verifyTrue, issuedAfter, cleared, tally, voters, scorer>>

\* botDetectionMiddleware: the blacklist lookup and its continuation
botDetectionMiddleware(ip, req) ==
  /\ served.pipeline < MaxRequests
  /\ served' = [served EXCEPT !.pipeline = @ + 1]
  /\ LET blacklisted == isBlacklisted(ip)
         botScore == calculateBotScore(req)
         seen == [kind |-> "pipeline", ip |-> ip, req |-> req,
                  lookupFailed |-> FALSE,
                  blacklisted |-> blacklisted,
                  active |-> ActiveEntry(ip),
                  retry |-> (<<ip, req>> \in cleared /\ BagToSet(pending) = {})]
     IN  IF blacklisted
           THEN /\ pending' = Issue(One(logSecurityEvent(ip, 0, "blocked_request", "high")))
                /\ resp' = seen @@ [status |-> 403, code |-> "IP_BLACKLISTED",
                                    botScore |-> <<>>, next |-> FALSE, suspicious |-> FALSE]
                /\ UNCHANGED challenged
         ELSE IF ChallengeBand(botScore)
           THEN /\ pending' = Issue(One(updateBotScore(ip, req))
                                (+) One(logSecurityEvent(ip, 0, "bot_detected", "high")))
                /\ resp' = seen @@ [status |-> 429, code |-> "CAPTCHA_REQUIRED",
                                    botScore |-> <<botScore>>, next |-> FALSE,
                                    suspicious |-> FALSE]
                /\ challenged' = challenged \cup {<<ip, req>>}
         ELSE IF FlagBand(botScore)
           THEN /\ pending' = Issue(One(updateBotScore(ip, req))
                                (+) One(logSecurityEvent(ip, 0, "suspicious_behavior", "medium")))
                /\ resp' = seen @@ [status |-> 0, code |-> "", botScore |-> <<botScore>>,
                                    next |-> TRUE, suspicious |-> TRUE]
                /\ UNCHANGED challenged
         ELSE   /\ pending' = Issue(One(updateBotScore(ip, req)))
                /\ resp' = seen @@ [status |-> 0, code |-> "", botScore |-> <<botScore>>,
                                    next |-> TRUE, suspicious |-> FALSE]
                /\ UNCHANGED challenged
  /\ UNCHANGED <<now, tables, verifyTrue, issuedAfter, cleared, tally, voters, scorer>>

NextGate ==
  \/ Tick
  \/ \E session \in Sessions, ip \in IPs \cup {<<>>}, reason \in {"", "abuse"},
        duration \in Durations : AdminBlacklist(session, ip, reason, duration)
  \/ \E ip \in IPs, req \in SampleRequests : botDetectionMiddleware(ip, req)
  \/ ExecUpsertScore
  \/ ExecLogEvent

SpecGate == Init /\ [][NextGate]_vars

(***************************************************************************)
(* Challenge manager                                                       *)
(***************************************************************************)
\* minutes a challenge lives: DEFAULT (datetime('now', '+5 minutes'))
CaptchaTTL == 5

\* the draws of Math.random() the stateful specifications let
\* generateSimpleCaptcha make: <<num1, operation, num2>>
CaptchaDraws == { <<20, "+", 20>>, <<1, "-", 20>> }

\* generateSimpleCaptcha, for given draws
generateSimpleCaptcha(num1, operation, num2) ==
  [question |-> <<num1, operation, num2>>,
   answer |-> IF operation = "+" THEN num1 + num2 ELSE num1 - num2]

\* uuidv4(): an id no challenge has
FreshChallengeId == CHOOSE c \in ChallengeIds : c \notin DOMAIN captcha_challenges

\* GET /api/security/captcha: createCaptchaChallenge(req.ip)
createCaptchaChallenge(ip, num1, operation, num2) ==
  /\ DOMAIN captcha_challenges # ChallengeIds
  /\ LET challengeId == FreshChallengeId
         captcha == generateSimpleCaptcha(num1, operation, num2)
     IN  /\ captcha_challenges' =
               (challengeId :> [ip_address |-> ip,
                                solution |-> NumberToString(captcha.answer),
                                solved |-> 0,
                                created_at |-> SqliteDatetime(now),
                                expires_at |-> SqliteDatetime(now + CaptchaTTL)])
               @@ captcha_challenges
         /\ issuedAfter' = (challengeId :> {p \in challenged : p[1] = ip}) @@ issuedAfter
         /\ resp' = [kind |-> "captcha", ip |-> ip, status |-> 200,
                     challengeId |-> challengeId, question |-> captcha.question]
  /\ UNCHANGED <<now, ip_blacklist, bot_scores, security_events, votes, servers, pending,
                 served, verifyTrue, challenged, cleared, tally, voters,
                 scorer>>

\* what a verify request body can carry as `solution`
Submissions ==
  { [t |-> "undefined"],
    [t |-> "number", n |-> 40],
    [t |-> "string", s |-> <<"4", "0">>],
    [t |-> "string", s |-> <<"-", "1", "9">>] }

\* !solution
Falsy(solution) ==
  \/ solution.t = "undefined"
  \/ solution.t = "number" /\ solution.n = 0
  \/ solution.t = "string" /\ solution.s = <<>>

\* solution.toString()
SolutionToString(solution) ==
  IF solution.t = "number" THEN NumberToString(solution.n) ELSE solution.s

\* mutant: the lookup forgets `AND solved = 0`
SelectChallenge_AnySolved(challengeId) ==
  /\ challengeId \in DOMAIN captcha_challenges
  /\ TextGreater(captcha_challenges[challengeId].expires_at, SqliteDatetime(now))

\* mutant: the lookup forgets `AND expires_at > datetime("now")`
SelectChallenge_NoExpiry(challengeId) ==
  /\ challengeId \in DOMAIN captcha_challenges
  /\ captcha_challenges[challengeId].solved = 0

\* SELECT * FROM captcha_challenges WHERE challenge_id = ?
\*   AND expires_at > datetime("now") AND solved = 0   finds a row
SelectChallenge(challengeId) ==
  /\ challengeId \in DOMAIN captcha_challenges
  /\ TextGreater(captcha_challenges[challengeId].expires_at, SqliteDatetime(now))
  /\ captcha_challenges[challengeId].solved = 0

\* what verifyCaptcha resolves to
verifyCaptcha(challengeId, solution) ==
  /\ SelectChallenge(challengeId)
  /\ captcha_challenges[challengeId].solution = SolutionToString(solution)

\* what the caller of a verify request can know of the challenge, for the claims
VerifyContext(challengeId, solution) ==
  LET existed == challengeId \in DOMAIN captcha_challenges
  IN  [existed |-> existed,
       priorTrue |-> IF challengeId \in ChallengeIds THEN verifyTrue[challengeId] ELSE 0,
       quiet |-> \A w \in BagToSet(pending) : ~(w.op = "setSolved" /\ w.id = challengeId),
       reached |-> existed /\
                   now >= InstantOf(captcha_challenges[challengeId].created_at) + CaptchaTTL,
       correct |-> existed /\ ~Falsy(solution) /\
                   SolutionToString(solution) = captcha_challenges[challengeId].solution,
       issuedTo |-> IF existed THEN captcha_challenges[challengeId].ip_address ELSE <<>>,
       answered |-> existed /\ solution.t # "undefined" /\
                    SolutionToString(solution) = captcha_challenges[challengeId].solution,
       missing |-> challengeId = 0 \/ solution.t = "undefined"]

\* mutant: only the solution is looked for in the body
MissingInput_SolutionOnly(challengeId, solution) == Falsy(solution)

\* !challengeId || !solution; challengeId 0 stands for a body without one
MissingInput(challengeId, solution) == challengeId = 0 \/ Falsy(solution)

\* mutant: a failed verification uses the challenge up
VerifyRequest_BurnsOnFailure(ip, challengeId, solution) ==
  /\ served.verify < MaxVerifies
  /\ served' = [served EXCEPT !.verify = @ + 1]
  /\ LET seen == [kind |-> "verify", ip |-> ip, challengeId |-> challengeId]
                 @@ VerifyContext(challengeId, solution)
     IN  IF MissingInput(challengeId, solution)
           THEN /\ resp' = seen @@ [called |-> FALSE, status |-> 400, valid |-> FALSE]
                /\ UNCHANGED <<pending, verifyTrue>>
         ELSE IF verifyCaptcha(challengeId, solution)
           THEN /\ pending' = Issue(One([op |-> "setSolved", id |-> challengeId])
                                (+) One([op |-> "amnesty", ip_address |-> ip,
                                         challenge |-> challengeId]))
                /\ verifyTrue' = [verifyTrue EXCEPT ![challengeId] = @ + 1]
                /\ resp' = seen @@ [called |-> TRUE, status |-> 200, valid |-> TRUE]
         ELSE   /\ resp' = seen @@ [called |-> TRUE, status |-> 400, valid |-> FALSE]
                /\ pending' = IF challengeId \in DOMAIN captcha_challenges
                                THEN Issue(One([op |-> "setSolved", id |-> challengeId]))
                                ELSE pending
                /\ UNCHANGED verifyTrue
  /\ UNCHANGED <<now, tables, challenged, issuedAfter, cleared, tally, voters, scorer>>

\* POST /api/security/captcha/verify
VerifyRequest(ip, challengeId, solution) ==
  /\ served.verify < MaxVerifies
  /\ served' = [served EXCEPT !.verify = @ + 1]
  /\ LET seen == [kind |-> "verify", ip |-> ip, challengeId |-> challengeId]
                 @@ VerifyContext(challengeId, solution)
     IN  IF MissingInput(challengeId, solution)
           THEN /\ resp' = seen @@ [called |-> FALSE, status |-> 400, valid |-> FALSE]
                /\ UNCHANGED <<pending, verifyTrue>>
         ELSE IF verifyCaptcha(challengeId, solution)
           THEN /\ pending' = Issue(One([op |-> "setSolved", id |-> challengeId])
                                (+) One([op |-> "amnesty", ip_address |-> ip,
                                         challenge |-> challengeId]))
                /\ verifyTrue' = [verifyTrue EXCEPT ![challengeId] = @ + 1]
                /\ resp' = seen @@ [called |-> TRUE, status |-> 200, valid |-> TRUE]
         ELSE   /\ resp' = seen @@ [called |-> TRUE, status |-> 400, valid |-> FALSE]
                /\ UNCHANGED <<pending, verifyTrue>>
  /\ UNCHANGED <<now, tables, challenged, issuedAfter, cleared, tally, voters, scorer>>

\* sqlite executes a queued UPDATE captcha_challenges SET solved = 1 WHERE id = ?
ExecSetSolved ==
  \E w \in BagToSet(pending) :
    /\ w.op = "setSolved"
    /\ captcha_challenges' = [captcha_challenges EXCEPT ![w.id].solved = 1]
    /\ pending' = pending (-) One(w)
    /\ UNCHANGED <<now, ip_blacklist, bot_scores, security_events, votes, servers,
                   resp, served, history, scorer>>

\* mutant: the amnesty subtracts 30 whatever the stored score is
ExecAmnesty_Subtracts(w) ==
  /\ w.op = "amnesty"
  /\ CopiesIn(w, pending) > 0
  /\ bot_scores' =
       [k \in DOMAIN bot_scores |->
          IF k[1] = w.ip_address
            THEN [bot_scores[k] EXCEPT !.bot_score = @ - 30]
            ELSE bot_scores[k]]
  /\ cleared' = cleared \cup
       (IF captcha_challenges[w.challenge].ip_address = w.ip_address
          THEN issuedAfter[w.challenge] ELSE {})
  /\ pending' = pending (-) One(w)
  /\ UNCHANGED <<now, ip_blacklist, captcha_challenges, security_events, votes, servers,
                 resp, served, verifyTrue, challenged, issuedAfter, tally, voters,
                 scorer>>

\* mutant: the amnesty writes the address's records anew, as first observations
ExecAmnesty_RewritesRecord(w) ==
  /\ w.op = "amnesty"
  /\ CopiesIn(w, pending) > 0
  /\ bot_scores' =
       [k \in DOMAIN bot_scores |->
          IF k[1] = w.ip_address
            THEN [bot_score |-> 0, request_count |-> 1, suspicious_patterns |-> 0]
            ELSE bot_scores[k]]
  /\ cleared' = cleared \cup
       (IF captcha_challenges[w.challenge].ip_address = w.ip_address
          THEN issuedAfter[w.challenge] ELSE {})
  /\ pending' = pending (-) One(w)
  /\ UNCHANGED <<now, ip_blacklist, captcha_challenges, security_events, votes, servers,
                 resp, served, verifyTrue, challenged, issuedAfter, tally, voters,
                 scorer>>

\* sqlite executes a queued UPDATE bot_scores SET bot_score = CASE WHEN bot_score > 30
\*   THEN bot_score - 30 ELSE 0 END WHERE ip_address = ?
ExecAmnesty(w) ==
  /\ w.op = "amnesty"
  /\ CopiesIn(w, pending) > 0
  /\ bot_scores' =
       [k \in DOMAIN bot_scores |->
          IF k[1] = w.ip_address
            THEN [bot_scores[k] EXCEPT
                    !.bot_score = IF @ > 30 THEN @ - 30 ELSE 0]
            ELSE bot_scores[k]]
  /\ cleared' = cleared \cup
       (IF captcha_challenges[w.challenge].ip_address = w.ip_address
          THEN issuedAfter[w.challenge] ELSE {})
  /\ pending' = pending (-) One(w)
  /\ UNCHANGED <<now, ip_blacklist, captcha_challenges, security_events, votes, servers,
                 resp, served, verifyTrue, challenged, issuedAfter, tally, voters,
                 scorer>>

\* the challenge manager alone, under a moving clock
NextVerify ==
  \/ Tick
  \/ \E ip \in IPs, d \in CaptchaDraws : createCaptchaChallenge(ip, d[1], d[2], d[3])
  \/ \E ip \in IPs, challengeId \in {0} \cup ChallengeIds, solution \in Submissions :
        VerifyRequest(ip, challengeId, solution)
  \/ ExecSetSolved
  \/ \E w \in BagToSet(pending) : ExecAmnesty(w)

SpecVerify == Init /\ [][NextVerify]_vars

\* the pipeline with the challenge manager, at one instant of the clock
NextAmnesty ==
  \/ \E ip \in IPs, req \in {ReqShort, ReqCurl} : botDetectionMiddleware(ip, req)
  \/ ExecUpsertScore
  \/ ExecLogEvent
  \/ \E ip \in IPs : createCaptchaChallenge(ip, 20, "+", 20)
  \/ \E ip \in IPs, challengeId \in ChallengeIds, solution \in Submissions :
        VerifyRequest(ip, challengeId, solution)
  \/ ExecSetSolved
  \/ \E w \in BagToSet(pending) : ExecAmnesty(w)

SpecAmnesty == Init /\ [][NextAmnesty]_vars

(***************************************************************************)
(* Vote window guard                                                       *)
(***************************************************************************)
\* one round of simpleHash on the 32-bit h, kept as <<high, low>> 16-bit halves:
\* h = (h << 5) - h + code; h |= 0
HashStep(h, code) ==
  LET low == 31 * h[2] + code
      high == 31 * h[1] + (low \div 65536)
  IN  <<high % 65536, low % 65536>>

RECURSIVE HashFrom(_, _, _)
HashFrom(h, str, i) ==
  IF i > Len(str) THEN h
  ELSE LET next == HashStep(h, charCodeAt(str[i]))
       IN  IF next[1] >= 0 THEN HashFrom(next, str, i + 1) ELSE next

\* the signed 32-bit integer that <<high, low>> holds
ToInt32(h) == IF h[1] >= 32768 THEN (h[1] - 65536) * 65536 + h[2] ELSE h[1] * 65536 + h[2]

\* simpleHash(str): String(h)
simpleHash(str) == NumberToString(ToInt32(HashFrom(<<0, 0>>, str, 1)))

\* simpleHash((req.ip || '') + '|' + (req.get('user-agent') || '')), tabulated
VoterFingerprint ==
  [ip \in IPs, ua \in UserAgents \cup {UA_Aa, UA_BB} |-> simpleHash(ip \o <<"|">> \o ua)]

IsDigit(c) == charCodeAt(c) >= 48 /\ charCodeAt(c) <= 57

RECURSIVE ParseDigits(_, _, _)
ParseDigits(str, i, acc) ==
  IF i > Len(str) \/ ~IsDigit(str[i]) THEN acc
  ELSE ParseDigits(str, i + 1, 10 * acc + (charCodeAt(str[i]) - 48))

\* Number.isNaN
NaN == <<>>

\* parseInt(str, 10) of an unsigned route parameter: <<n>>, or NaN
parseInt(str) ==
  IF str = <<>> \/ ~IsDigit(str[1]) THEN NaN ELSE <<ParseDigits(str, 1, 0)>>

\* the :id route parameters tried
ServerParams == { <<"1">>, <<"2">>, <<"1", "x">>, <<"x">> }

\* mutant: the uniqueness constraint leaves the day out
VoteConflict_AnyDay(row) ==
  \E v \in votes : v.server_id = row.server_id /\ v.voter_hash = row.voter_hash

\* UNIQUE(server_id, voter_hash, voted_date) refuses the row
VoteConflict(row) ==
  \E v \in votes : /\ v.server_id = row.server_id
                   /\ v.voter_hash = row.voter_hash
                   /\ v.voted_date = row.voted_date

VoteStatements == {w \in BagToSet(pending) : w.op \in {"incVotes", "selectVotes"}}

Count(key, field) == IF key \in DOMAIN tally THEN tally[key][field] ELSE 0

Tallied(key, field) ==
  (key :> [asked |-> Count(key, "asked") + (IF field = "asked" THEN 1 ELSE 0),
           accepted |-> Count(key, "accepted") + (IF field = "accepted" THEN 1 ELSE 0),
           denied |-> Count(key, "denied") + (IF field = "denied" THEN 1 ELSE 0)])
  @@ tally

\* POST /api/servers/:id/vote, once voteLimiter and botDetectionMiddleware have
\* passed the request on: the handler up to the execution of INSERT OR IGNORE
VoteRequest(ip, ua, param) ==
  /\ served.vote < MaxVotes
  /\ served' = [served EXCEPT !.vote = @ + 1]
  /\ LET serverId == parseInt(param)
     IN  IF serverId = NaN
           THEN /\ resp' = [kind |-> "vote", status |-> 400]
                /\ UNCHANGED <<votes, pending, tally, voters>>
         ELSE LET row == [server_id |-> serverId[1],
                          voter_hash |-> VoterFingerprint[ip, ua],
                          voted_date |-> SqliteDate(now)]
                  key == <<row.server_id, row.voter_hash, row.voted_date>>
              IN  IF VoteConflict(row)
                    THEN /\ resp' = [kind |-> "vote", status |-> 429, key |-> key,
                                     hadRow |-> row \in votes, ip |-> ip, ua |-> ua]
                         /\ tally' = [Tallied(key, "asked") EXCEPT ![key].denied = @ + 1]
                         /\ UNCHANGED <<votes, pending, voters>>
                    ELSE /\ votes' = votes \cup {row}
                         /\ pending' = Issue(One([op |-> "incVotes",
                                                  server_id |-> row.server_id, key |-> key]))
                         /\ tally' = Tallied(key, "asked")
                         /\ voters' = voters \cup {[ip |-> ip, ua |-> ua, key |-> key]}
                         /\ UNCHANGED resp
  /\ UNCHANGED <<now, ip_blacklist, bot_scores, captcha_challenges, security_events,
                 servers, verifyTrue, challenged, issuedAfter, cleared, scorer>>

\* sqlite executes UPDATE servers SET votes = votes + 1 WHERE id = ?
ExecIncVotes ==
  \E w \in BagToSet(pending) :
    /\ w.op = "incVotes"
    /\ servers' = [id \in DOMAIN servers |->
                     IF id = w.server_id THEN servers[id] + 1 ELSE servers[id]]
    /\ pending' = (pending (-) One(w))
                  (+) One([op |-> "selectVotes", server_id |-> w.server_id, key |-> w.key])
    /\ UNCHANGED <<now, ip_blacklist, bot_scores, captcha_challenges, security_events,
                   votes, resp, served, history, scorer>>

\* sqlite executes SELECT id, votes FROM servers WHERE id = ? and the handler answers
ExecSelectVotes ==
  \E w \in BagToSet(pending) :
    /\ w.op = "selectVotes"
    /\ resp' = [kind |-> "vote", status |-> 200, success |-> TRUE, key |-> w.key,
                server_id |-> w.server_id,
                votes |-> IF w.server_id \in DOMAIN servers
                            THEN <<servers[w.server_id]>> ELSE NULL]
    /\ tally' = Tallied(w.key, "accepted")
    /\ pending' = pending (-) One(w)
    /\ UNCHANGED <<now, tables, served, verifyTrue, challenged, issuedAfter, cleared, voters,
                   scorer>>

NextVote ==
  \/ Tick
  \/ \E ip \in IPs, ua \in {UA_Curl, UA_Browser}, param \in ServerParams :
        VoteRequest(ip, ua, param)
  \/ ExecIncVotes
  \/ ExecSelectVotes

SpecVote == Init /\ [][NextVote]_vars

(***************************************************************************)
(* The whole program                                                       *)
(***************************************************************************)
Next ==
  \/ Tick
  \/ \E session \in Sessions, ip \in IPs \cup {<<>>}, reason \in {"", "abuse"},
        duration \in Durations : AdminBlacklist(session, ip, reason, duration)
  \/ \E ip \in IPs, req \in SampleRequests : botDetectionMiddleware(ip, req)
  \/ ExecUpsertScore
  \/ ExecLogEvent
  \/ \E ip \in IPs, d \in CaptchaDraws : createCaptchaChallenge(ip, d[1], d[2], d[3])
  \/ \E ip \in IPs, challengeId \in {0} \cup ChallengeIds, solution \in Submissions :
        VerifyRequest(ip, challengeId, solution)
  \/ ExecSetSolved
  \/ \E w \in BagToSet(pending) : ExecAmnesty(w)
  \/ \E ip \in IPs, ua \in UserAgents, param \in ServerParams : VoteRequest(ip, ua, param)
  \/ ExecIncVotes
  \/ ExecSelectVotes

Spec == Init /\ [][Next]_vars

NextScore == ScoreInput

SpecScore == InitScore /\ [][NextScore]_vars

(***************************************************************************)
(* Claims                                                                  *)
(***************************************************************************)
Max(a, b) == IF a > b THEN a ELSE b

\* C1: a request evaluated by the access pipeline whose address has a blacklist
\* entry in force (no blocked-until, or a blocked-until after the clock) is
\* answered 403 IP_BLACKLISTED and never reaches the route handler, whatever its
\* headers are.
C1_BlacklistedRejected ==
  (resp.kind = "pipeline" /\ resp.active)
    => (resp.status = 403 /\ resp.code = "IP_BLACKLISTED" /\ ~resp.next)

\* a request with a score-0 header set was rejected because of a blacklist entry in force
C1_Witness ==
  /\ resp.kind = "pipeline"
  /\ resp.active
  /\ RawBotScore(resp.req) = 0
  /\ resp.status = 403

\* C2: for a request the blacklist guard lets through, the outcome is fixed by
\* the request's score s: s >= 80 answers 429 CAPTCHA_REQUIRED with botScore = s
\* and no hand-over; 60 <= s < 80 hands over with the request marked suspicious;
\* s < 60 hands over unmarked.
C2_OutcomeByScore ==
  (resp.kind = "pipeline" /\ ~resp.blacklisted) =>
    LET s == Min(RawBotScore(resp.req), 100)
    IN  /\ s >= 80 => /\ resp.status = 429
                      /\ resp.code = "CAPTCHA_REQUIRED"
                      /\ resp.botScore = <<s>>
                      /\ ~resp.next
        /\ (s >= 60 /\ s < 80) => (resp.next /\ resp.suspicious /\ resp.status = 0)
        /\ s < 60 => (resp.next /\ ~resp.suspicious /\ resp.status = 0)

\* a request scoring exactly 80 was answered CAPTCHA_REQUIRED
C2_Witness ==
  /\ resp.kind = "pipeline"
  /\ ~resp.blacklisted
  /\ RawBotScore(resp.req) = 80
  /\ resp.status = 429

\* C3: over verify calls made one after another (no call's UPDATE of the solved
\* flag still waiting when the next call looks the challenge up), a call returns
\* true exactly when it is the first one with the correct answer on a challenge
\* the clock has not expired; every later call for the id returns false.
C3_TrueExactlyOnce ==
  (resp.kind = "verify" /\ resp.called /\ resp.quiet) =>
    (resp.valid <=> (resp.correct /\ ~resp.reached /\ resp.priorTrue = 0))

\* a second verify with the correct answer, made after the first one was
\* carried out, returned false
C3_Witness ==
  /\ resp.kind = "verify"
  /\ resp.called
  /\ resp.quiet
  /\ resp.correct
  /\ ~resp.reached
  /\ resp.priorTrue = 1
  /\ ~resp.valid

\* C4: of the verify calls with the correct answer for one challenge, however
\* their lookups and their writes of the solved flag interleave, at most one
\* returns true.
C4_AtMostOneTrue == \A c \in ChallengeIds : verifyTrue[c] <= 1

\* C5: once the clock has reached a challenge's creation time + 5 minutes, every
\* verify call for its id returns false, with whatever answer and solved flag.
C5_ExpiredNeverVerifies ==
  (resp.kind = "verify" /\ resp.called /\ resp.reached) => ~resp.valid

\* a verify with the correct answer for a never-solved challenge returned false
\* because the clock had reached its expiry
C5_Witness ==
  /\ resp.kind = "verify"
  /\ resp.called
  /\ resp.reached
  /\ resp.correct
  /\ resp.priorTrue = 0
  /\ ~resp.valid

\* C6: of the vote requests carrying one server id and one voter fingerprint on
\* one calendar day, never more than one is accepted; once they are all
\* answered exactly one was accepted and every other one was answered 429; and a
\* 429 is only ever caused by a vote row of that same server, fingerprint and day.
C6_OneVotePerWindow ==
  /\ \A key \in DOMAIN tally :
       /\ tally[key].accepted <= 1
       /\ VoteStatements = {} =>
            (tally[key].accepted = 1 /\ tally[key].denied = tally[key].asked - 1)
  /\ (resp.kind = "vote" /\ resp.status = 429) => resp.hadRow

\* three requests of one window were all answered: one accepted, two denied
C6_Witness ==
  /\ VoteStatements = {}
  /\ \E key \in DOMAIN tally :
       tally[key].asked = 3 /\ tally[key].accepted = 1 /\ tally[key].denied = 2

\* C7: when the amnesty of a successful verification is carried out, every
\* reputation row of the address the challenge was issued for drops to
\* max(0, score - 30) and the rows of every other address keep their score.
C7_AmnestyForIssuedAddress ==
  [][\A w \in BagToSet(pending) :
       ExecAmnesty(w) =>
         \A k \in DOMAIN bot_scores :
           bot_scores'[k].bot_score =
             IF k[1] = captcha_challenges[w.challenge].ip_address
               THEN Max(0, bot_scores[k].bot_score - 30)
               ELSE bot_scores[k].bot_score]_vars

\* C8: a request answered CAPTCHA_REQUIRED, retried with the same address and
\* headers after its client obtained a challenge, verified it and had the
\* amnesty carried out, is handed to the route handler.
C8_RetryPasses ==
  (resp.kind = "pipeline" /\ resp.retry /\ ~resp.blacklisted) => resp.next

\* C9: isBlacklisted(address) is true exactly when the address has an entry
\* with no blocked-until or with a blocked-until after the current time.
C9_GuardMatchesExpiry == \A ip \in IPs : isBlacklisted(ip) <=> ActiveEntry(ip)

\* C10: calculateBotScore returns an integer between 0 and 100 inclusive for
\* every combination of headers, method and path, also when the fired point
\* rules add up to more than 100.
C10_ScoreInRange ==
  output # <<>> => (output[1] \in Int /\ output[1] >= 0 /\ output[1] <= 100)

\* a scorer run whose fired rules add up to more than 100 has returned
C10_Witness == output # <<>> /\ RawBotScore(input) > 100

(***************************************************************************)
(* The scorer behind the pipeline, on every header combination             *)
(***************************************************************************)
\* one request, drawn from every header combination, goes through the access
\* pipeline from either address; nothing is blacklisted
NextProbe ==
  \/ \E ip \in IPs : botDetectionMiddleware(ip, input)
  \/ ExecUpsertScore
  \/ ExecLogEvent

SpecProbe == InitScore /\ [][NextProbe]_vars

\* a full modern-browser header set: a browser user-agent of at least 20
\* characters with a browser-engine token and no automation signature, a specific
\* Accept, Accept-Language, Accept-Encoding and a keep-alive Connection
FullBrowserHeaders(req) ==
  /\ Len(req.ua) >= 20
  /\ MatchesBrowserToken[req.ua]
  /\ ~MatchesBotPattern[req.ua]
  /\ req.accept \notin {"", "*/*"}
  /\ req.acceptLanguage # ""
  /\ req.acceptEncoding # ""
  /\ req.connection = Conn_keepalive

\* C11: a request with a full modern-browser header set, sent with the method
\* and to a path the pipeline is applied to (a POST to a gated route), scores 0.
C11_BrowserScoresZero ==
  (/\ output # <<>>
   /\ FullBrowserHeaders(input)
   /\ input.method = "POST"
   /\ input.path = GatedPath) => output[1] = 0

\* C12 as stated: the curl/7.68.0 request without Accept, Accept-Language and
\* Accept-Encoding scores at least 80 and is answered CAPTCHA_REQUIRED, and every
\* request with an automation user-agent and no Accept-Language scores at least 55.
C12_AutomationAtLeast55 ==
  resp.kind = "pipeline" =>
    /\ (/\ resp.req.ua = UA_Curl
        /\ resp.req.accept = ""
        /\ resp.req.acceptLanguage = ""
        /\ resp.req.acceptEncoding = "")
         => (/\ resp.botScore[1] >= 80
             /\ resp.status = 429
             /\ resp.code = "CAPTCHA_REQUIRED"
             /\ ~resp.next)
    /\ (MatchesBotPattern[resp.req.ua] /\ resp.req.acceptLanguage = "")
         => resp.botScore[1] >= 55

\* C12 (amended): the curl/7.68.0 request without Accept, Accept-Language and
\* Accept-Encoding scores at least 80 and is answered CAPTCHA_REQUIRED, and every
\* request with an automation user-agent and no Accept-Language scores at least
\* 45, the sum of the two rules that are certain to fire (30 + 15).
C12_AutomationAtLeast45 ==
  resp.kind = "pipeline" =>
    /\ (/\ resp.req.ua = UA_Curl
        /\ resp.req.accept = ""
        /\ resp.req.acceptLanguage = ""
        /\ resp.req.acceptEncoding = "")
         => (/\ resp.botScore[1] >= 80
             /\ resp.status = 429
             /\ resp.code = "CAPTCHA_REQUIRED"
             /\ ~resp.next)
    /\ (MatchesBotPattern[resp.req.ua] /\ resp.req.acceptLanguage = "")
         => resp.botScore[1] >= 45

\* the pipeline scored a request with an automation user-agent and no
\* Accept-Language at exactly 45 and handed it over
C12_Witness ==
  /\ resp.kind = "pipeline"
  /\ MatchesBotPattern[resp.req.ua]
  /\ resp.req.acceptLanguage = ""
  /\ resp.botScore = <<45>>
  /\ resp.next

\* C13: a challenge is never used across addresses: a verify request answered
\* valid comes from the address the challenge was created for, and every amnesty
\* a successful verification issues is for the address its challenge was issued to.
C13_ChallengeBoundToAddress ==
  /\ (resp.kind = "verify" /\ resp.valid) => resp.ip = resp.issuedTo
  /\ \A w \in BagToSet(pending) :
       w.op = "amnesty" => w.ip_address = captcha_challenges[w.challenge].ip_address

(***************************************************************************)
(* Every challenge the generator can make, answered correctly              *)
(***************************************************************************)
\* every outcome of generateSimpleCaptcha: operands 1..20, operation + or -
AllDraws == {<<num1, operation, num2>> : num1 \in 1..20, operation \in {"+", "-"},
                                         num2 \in 1..20}

\* the answers the generator can ask for
Answers == {generateSimpleCaptcha(d[1], d[2], d[3]).answer : d \in AllDraws}

\* a client that computed the answer of challenge 1 sends it as a number or as
\* its decimal string
CorrectSubmissions ==
  {[t |-> "number", n |-> n] : n \in {a \in Answers :
       NumberToString(a) = captcha_challenges[1].solution}}
  \cup {[t |-> "string", s |-> captcha_challenges[1].solution]}

\* one challenge of any draw is created and then answered correctly, twice at most
NextAnswers ==
  \/ /\ captcha_challenges = <<>>
     /\ \E d \in AllDraws : createCaptchaChallenge(IP_A, d[1], d[2], d[3])
  \/ /\ 1 \in DOMAIN captcha_challenges
     /\ \E solution \in CorrectSubmissions : VerifyRequest(IP_A, 1, solution)
  \/ ExecSetSolved
  \/ \E w \in BagToSet(pending) : ExecAmnesty(w)

SpecAnswers == Init /\ [][NextAnswers]_vars

\* C14: for every challenge the generator can make, the correct answer sent to
\* the verify endpoint for the unexpired, unsolved challenge, as a number or as
\* its decimal string, is answered valid: true.
C14_CorrectAnswerAccepted ==
  (/\ resp.kind = "verify"
   /\ resp.answered
   /\ ~resp.reached
   /\ resp.priorTrue = 0) => (resp.valid /\ resp.status = 200)

\* C15: a verify request whose body lacks the challenge id or the solution is
\* answered 400 without a call of verifyCaptcha, and the step changes no table
\* and issues no statement.
C15_MalformedVerifyTouchesNothing ==
  [][(/\ served'.verify # served.verify
      /\ resp'.kind = "verify"
      /\ resp'.missing)
       => (/\ resp'.status = 400
           /\ ~resp'.called
           /\ ~resp'.valid
           /\ UNCHANGED <<tables, pending>>)]_vars

\* a verify request for an existing, unsolved, unexpired challenge whose body had
\* no solution was answered 400
C15_Witness ==
  /\ resp.kind = "verify"
  /\ resp.missing
  /\ resp.challengeId # 0
  /\ resp.existed
  /\ ~resp.reached
  /\ resp.priorTrue = 0
  /\ resp.status = 400

\* C16: a verify call for an id that never existed, for an expired challenge and
\* for a challenge already solved gets the same result for every answer: false,
\* HTTP 400, valid: false.
C16_FailuresIndistinguishable ==
  (/\ resp.kind = "verify"
   /\ resp.called
   /\ \/ ~resp.existed
      \/ resp.reached
      \/ resp.priorTrue >= 1 /\ resp.quiet)
    => (resp.status = 400 /\ ~resp.valid)

\* after a challenge had been verified, a verify call for an id that no
\* challenge has was answered 400, valid: false
C16_Witness ==
  /\ resp.kind = "verify"
  /\ resp.called
  /\ ~resp.existed
  /\ resp.status = 400
  /\ \E c \in ChallengeIds : verifyTrue[c] >= 1

(***************************************************************************)
(* The store fails                                                         *)
(***************************************************************************)
\* mutant: the handler forgets `if (err) return ...` and goes on to the counter
VoteInsertFails_Proceeds(ip, ua, param) ==
  /\ served.vote < MaxVotes
  /\ served.failed < MaxFailures
  /\ parseInt(param) # NaN
  /\ served' = [served EXCEPT !.vote = @ + 1, !.failed = @ + 1]
  /\ LET serverId == parseInt(param)
         key == <<serverId[1], VoterFingerprint[ip, ua], SqliteDate(now)>>
     IN  pending' = Issue(One([op |-> "incVotes", server_id |-> serverId[1], key |-> key]))
  /\ UNCHANGED <<now, tables, resp, history, scorer>>

\* POST /api/servers/:id/vote when sqlite reports an error on the INSERT OR IGNORE:
\* if (err) return res.status(500).json({ error: 'DB error', ... })
VoteInsertFails(ip, ua, param) ==
  /\ served.vote < MaxVotes
  /\ served.failed < MaxFailures
  /\ parseInt(param) # NaN
  /\ served' = [served EXCEPT !.vote = @ + 1, !.failed = @ + 1]
  /\ LET serverId == parseInt(param)
         key == <<serverId[1], VoterFingerprint[ip, ua], SqliteDate(now)>>
     IN  resp' = [kind |-> "vote", status |-> 500, key |-> key, success |-> FALSE]
  /\ UNCHANGED <<now, tables, pending, history, scorer>>

NextVoteFault ==
  \/ Tick
  \/ \E ip \in IPs, ua \in {UA_Curl, UA_Browser}, param \in ServerParams :
        VoteRequest(ip, ua, param)
  \/ \E ip \in IPs, ua \in {UA_Curl, UA_Browser}, param \in ServerParams :
        VoteInsertFails(ip, ua, param)
  \/ ExecIncVotes
  \/ ExecSelectVotes

SpecVoteFault == Init /\ [][NextVoteFault]_vars

\* C17: when the store reports an error on the vote insert, the request is
\* answered with an error (500, no success), no vote row is written, the server's
\* counter is not incremented and no statement that would increment it or answer
\* success is issued.
C17_VoteGuardFailsClosed ==
  [][(served'.failed # served.failed /\ served'.vote # served.vote)
       => (/\ resp'.kind = "vote"
           /\ resp'.status = 500
           /\ ~resp'.success
           /\ UNCHANGED <<servers, votes, pending>>)]_vars

\* a vote whose insert failed was answered 500 while the counter of its server
\* stayed at 0 and nothing was left to execute
C17_Witness ==
  /\ resp.kind = "vote"
  /\ resp.status = 500
  /\ resp.key[1] \in DOMAIN servers
  /\ servers[resp.key[1]] = 0
  /\ votes = {}
  /\ BagToSet(pending) = {}

\* mutant: the middleware answers 500 when the blacklist lookup fails
LookupFails_Rejects(ip, req) ==
  /\ served.pipeline < MaxRequests
  /\ served.failed < MaxFailures
  /\ served' = [served EXCEPT !.pipeline = @ + 1, !.failed = @ + 1]
  /\ resp' = [kind |-> "pipeline", ip |-> ip, req |-> req, lookupFailed |-> TRUE,
              blacklisted |-> FALSE, active |-> ActiveEntry(ip), retry |-> FALSE,
              status |-> 500, code |-> "", botScore |-> <<>>, next |-> FALSE,
              nextCalls |-> 0, suspicious |-> FALSE]
  /\ UNCHANGED <<now, tables, pending, history, scorer>>

\* botDetectionMiddleware when isBlacklisted rejects (the SELECT failed):
\* .catch(err => { console.error(...); next(); })
LookupFails(ip, req) ==
  /\ served.pipeline < MaxRequests
  /\ served.failed < MaxFailures
  /\ served' = [served EXCEPT !.pipeline = @ + 1, !.failed = @ + 1]
  /\ resp' = [kind |-> "pipeline", ip |-> ip, req |-> req, lookupFailed |-> TRUE,
              blacklisted |-> FALSE, active |-> ActiveEntry(ip), retry |-> FALSE,
              status |-> 0, code |-> "", botScore |-> <<>>, next |-> TRUE,
              nextCalls |-> 1, suspicious |-> FALSE]
  /\ UNCHANGED <<now, tables, pending, history, scorer>>

\* sqlite fails a queued INSERT OR REPLACE INTO bot_scores:
\* (err) => { if (err) console.error('Failed to update bot score:', err); }
FailUpsertScore ==
  \E w \in BagToSet(pending) :
    /\ w.op = "upsertScore"
    /\ served.failed < MaxFailures
    /\ served' = [served EXCEPT !.failed = @ + 1]
    /\ pending' = pending (-) One(w)
    /\ UNCHANGED <<now, tables, resp, history, scorer>>

\* mutant: the failure of the event write reaches the caller as a 500
FailLogEvent_Propagates ==
  \E w \in BagToSet(pending) :
    /\ w.op = "logEvent"
    /\ served.failed < MaxFailures
    /\ served' = [served EXCEPT !.failed = @ + 1]
    /\ pending' = pending (-) One(w)
    /\ resp' = [kind |-> "error", status |-> 500]
    /\ UNCHANGED <<now, tables, history, scorer>>

\* sqlite fails a queued INSERT INTO security_events:
\* (err) => { if (err) console.error('Failed to log security event:', err); }
FailLogEvent ==
  \E w \in BagToSet(pending) :
    /\ w.op = "logEvent"
    /\ served.failed < MaxFailures
    /\ served' = [served EXCEPT !.failed = @ + 1]
    /\ pending' = pending (-) One(w)
    /\ UNCHANGED <<now, tables, resp, history, scorer>>

\* the access pipeline and the blacklist endpoint over a store that may fail
NextFault ==
  \/ \E session \in Sessions, ip \in IPs \cup {<<>>}, reason \in {"", "abuse"},
        duration \in Durations : AdminBlacklist(session, ip, reason, duration)
  \/ \E ip \in IPs, req \in SampleRequests : botDetectionMiddleware(ip, req)
  \/ \E ip \in IPs, req \in SampleRequests : LookupFails(ip, req)
  \/ ExecUpsertScore
  \/ ExecLogEvent
  \/ FailUpsertScore
  \/ FailLogEvent

SpecFault == Init /\ [][NextFault]_vars

\* C18: the pipeline fails open: a request whose blacklist lookup failed is
\* handed to the route handler exactly once with no error response; and whatever
\* lookups and reputation writes fail, a 403 is only sent on a blacklist verdict
\* and a 429 only for a score of 80 or more, no other status is ever sent, and a
\* failing reputation write leaves the response as it was.
C18_PipelineFailsOpen ==
  /\ [](resp.kind = "pipeline" =>
          /\ resp.lookupFailed => (resp.next /\ resp.nextCalls = 1 /\ resp.status = 0)
          /\ resp.status \in {0, 403, 429}
          /\ resp.status = 403 => (~resp.lookupFailed /\ resp.blacklisted)
          /\ resp.status = 429 => (~resp.lookupFailed /\ calculateBotScore(resp.req) >= 80)
          /\ resp.status = 0 => resp.next)
  /\ [][(\E w \in BagToSet(pending) :
            /\ w.op = "upsertScore"
            /\ pending' = pending (-) One(w)
            /\ bot_scores' = bot_scores) => resp' = resp]_vars

\* the lookup failed for an address that has a blacklist entry in force, and the
\* request was handed on
C18_Witness ==
  /\ resp.kind = "pipeline"
  /\ resp.lookupFailed
  /\ resp.active
  /\ resp.next

\* C19: a step in which a security event leaves the queue, stored or lost,
\* leaves the response of the request that triggered it (Reject,
\* ChallengeRequired, Flag or any other) unchanged; nothing reaches the caller.
C19_EventFailureIsSwallowed ==
  [][(\E w \in BagToSet(pending) :
         /\ w.op = "logEvent"
         /\ pending' = pending (-) One(w)) => resp' = resp]_vars

\* a request was answered CAPTCHA_REQUIRED and its bot_detected event was lost
C19_Witness ==
  /\ resp.kind = "pipeline"
  /\ resp.status = 429
  /\ served.failed >= 1
  /\ security_events = EmptyBag
  /\ \A w \in BagToSet(pending) : w.op # "logEvent"

(***************************************************************************)
(* Who writes the blacklist                                                *)
(***************************************************************************)
\* every component at work next to the blacklist endpoint: an address that keeps
\* scoring 100, one challenge and its verifications, one vote, and blacklist
\* requests from every kind of session
NextAdmin ==
  \/ \E session \in Sessions, duration \in Durations :
        AdminBlacklist(session, IP_A, "abuse", duration)
  \/ botDetectionMiddleware(IP_A, ReqCurl)
  \/ ExecUpsertScore
  \/ ExecLogEvent
  \/ captcha_challenges = <<>> /\ createCaptchaChallenge(IP_A, 20, "+", 20)
  \/ VerifyRequest(IP_A, 1, [t |-> "string", s |-> <<"4", "0">>])
  \/ ExecSetSolved
  \/ \E w \in BagToSet(pending) : ExecAmnesty(w)
  \/ served.vote = 0 /\ VoteRequest(IP_A, UA_Curl, <<"1">>)
  \/ ExecIncVotes
  \/ ExecSelectVotes

SpecAdmin == Init /\ [][NextAdmin]_vars

\* C20: every blacklist entry was written by a session with the admin role, and
\* the blacklist changes only in a step that takes a blacklist request of such a
\* session: the pipeline, the scorer, the challenge operations, the vote guard
\* and blacklist requests without an admin session leave it as it is.
C20_BlacklistByAdminOnly ==
  /\ [](\A ip \in DOMAIN ip_blacklist :
          \E session \in Sessions :
            /\ session.userRole = "admin"
            /\ session.userId # 0
            /\ ip_blacklist[ip].created_by = session.userId)
  /\ [][ip_blacklist' # ip_blacklist =>
          (/\ served'.admin # served.admin
           /\ resp'.kind = "blacklist"
           /\ resp'.status = 200
           /\ resp'.session.userRole = "admin"
           /\ resp'.session.userId # 0)]_vars

\* an address was answered CAPTCHA_REQUIRED twice and voted, a logged-in user
\* without the admin role asked for its blacklisting, and the blacklist is empty
C20_Witness ==
  /\ resp.kind = "blacklist"
  /\ resp.status = 403
  /\ resp.session.userRole = "user"
  /\ served.pipeline = 2
  /\ served.vote >= 1
  /\ \E k \in DOMAIN bot_scores : bot_scores[k].bot_score = 100
  /\ ip_blacklist = <<>>

(***************************************************************************)
(* Voter fingerprints of clients that differ only in their user-agent      *)
(***************************************************************************)
NextCollide ==
  \/ Tick
  \/ \E ip \in IPs, ua \in {UA_Aa, UA_BB}, param \in {<<"1">>, <<"2">>} :
        VoteRequest(ip, ua, param)
  \/ ExecIncVotes
  \/ ExecSelectVotes

SpecCollide == Init /\ [][NextCollide]_vars

\* C21: for a fixed address, requests carrying different user-agents get
\* different fingerprints, so that a vote recorded for one of them never
\* blocks the other: a vote answered 429 was blocked by a row that a request
\* with the same address and the same user-agent inserted; and two requests
\* with identical inputs get the identical fingerprint.
C21_DistinctAgentsDoNotBlock ==
  /\ \A v \in voters : v.key[2] = VoterFingerprint[v.ip, v.ua]
  /\ (resp.kind = "vote" /\ resp.status = 429)
        => \A v \in voters :
              (v.key = resp.key /\ v.ip = resp.ip) => v.ua = resp.ua

(***************************************************************************)
(* The reputation record of one key under changing scores                  *)
(***************************************************************************)
\* the short user-agent with a full browser header set: same key as ReqShort,
\* lower score
ReqShortFull == [ReqBrowser EXCEPT !.ua = UA_Short]
ReputationRequests == {ReqShort, ReqShortFull, ReqCurl}

NextReputation ==
  \/ \E ip \in IPs, req \in ReputationRequests : botDetectionMiddleware(ip, req)
  \/ ExecUpsertScore
  \/ ExecLogEvent

SpecReputation == Init /\ [][NextReputation]_vars

\* C22: a reputation update for a key (address, user-agent) creates the record
\* with request count 1 on the first observation; a later observation adds
\* exactly 1 to the request count, adds 1 to the suspicious-pattern count if
\* and only if the observed score is above 50, and stores the observed score
\* whatever score was stored before; no other record changes.
C22_ReputationUpdate ==
  [][bot_scores' # bot_scores =>
       \E w \in BagToSet(pending) :
         /\ w.op = "upsertScore"
         /\ pending' = pending (-) One(w)
         /\ LET key == <<w.ip_address, w.user_agent>>
            IN  /\ DOMAIN bot_scores' = DOMAIN bot_scores \cup {key}
                /\ \A k \in DOMAIN bot_scores \ {key} : bot_scores'[k] = bot_scores[k]
                /\ bot_scores'[key].bot_score = w.bot_score
                /\ IF key \in DOMAIN bot_scores
                     THEN /\ bot_scores'[key].request_count
                               = bot_scores[key].request_count + 1
                          /\ bot_scores'[key].suspicious_patterns
                               = bot_scores[key].suspicious_patterns
                                   + (IF w.bot_score > 50 THEN 1 ELSE 0)
                     ELSE bot_scores'[key].request_count = 1]_vars

\* a key observed twice, once above 50 and then at 20: the record holds the
\* later, lower score
C22_Witness ==
  \E key \in DOMAIN bot_scores :
    /\ bot_scores[key].request_count = 2
    /\ bot_scores[key].suspicious_patterns = 1
    /\ bot_scores[key].bot_score = 20

(***************************************************************************)
(* Reputation updates racing with each other and with the score amnesty    *)
(***************************************************************************)
\* requests of every band from both addresses, one challenge and its correct
\* answer from either address, every queued statement executing in any order
NextRace ==
  \/ \E ip \in IPs, req \in ReputationRequests : botDetectionMiddleware(ip, req)
  \/ ExecUpsertScore
  \/ ExecLogEvent
  \/ captcha_challenges = <<>> /\ \E ip \in IPs : createCaptchaChallenge(ip, 20, "+", 20)
  \/ \E ip \in IPs : VerifyRequest(ip, 1, [t |-> "string", s |-> <<"4", "0">>])
  \/ ExecSetSolved
  \/ \E w \in BagToSet(pending) : ExecAmnesty(w)

SpecRace == Init /\ [][NextRace]_vars

\* the reputation updates issued for a key and not yet executed
QueuedUpdates(key) ==
  BagCardinality([w \in {x \in BagToSet(pending) :
                           /\ x.op = "upsertScore"
                           /\ <<x.ip_address, x.user_agent>> = key} |-> pending[w]])

\* the request count recorded for a key
Recorded(key) == IF key \in DOMAIN bot_scores THEN bot_scores[key].request_count ELSE 0

\* C23: no reputation update is lost when requests with the same key run
\* concurrently with each other and with a score amnesty: each request let
\* through to the scorer adds exactly one to what its key's request count
\* holds or is still owed, and no other step (an update executing in any
\* order, an amnesty, a challenge) changes that sum; so once the updates have
\* executed the count stands exactly n higher, in the one record of the key.
C23_NoLostUpdate ==
  [][\A ip \in IPs, ua \in UserAgents :
       LET key == <<ip, ua>>
           before == Recorded(key) + QueuedUpdates(key)
           after == Recorded(key)' + QueuedUpdates(key)'
       IN  IF /\ served'.pipeline = served.pipeline + 1
              /\ resp'.ip = ip
              /\ resp'.req.ua = ua
              /\ ~resp'.blacklisted
             THEN after = before + 1
             ELSE after = before]_vars

\* two requests with one key were both counted, and an amnesty for the address
\* has lowered the stored score in between or afterwards
C23_Witness ==
  \E key \in DOMAIN bot_scores :
    /\ bot_scores[key].request_count = 2
    /\ bot_scores[key].bot_score = 30
    /\ QueuedUpdates(key) = 0

(***************************************************************************)
(* The vote handler when the statements after the insert fail              *)
(***************************************************************************)
\* sqlite reports an error on UPDATE servers SET votes = votes + 1:
\* if (err2) return res.status(500).json({ error: 'DB error', ... })
FailIncVotes ==
  \E w \in BagToSet(pending) :
    /\ w.op = "incVotes"
    /\ served.failed < MaxFailures
    /\ served' = [served EXCEPT !.failed = @ + 1]
    /\ resp' = [kind |-> "vote", status |-> 500, key |-> w.key, success |-> FALSE]
    /\ pending' = pending (-) One(w)
    /\ UNCHANGED <<now, tables, history, scorer>>

\* sqlite reports an error on SELECT id, votes FROM servers:
\* if (err3) return res.status(500).json({ error: 'DB error', ... })
FailSelectVotes ==
  \E w \in BagToSet(pending) :
    /\ w.op = "selectVotes"
    /\ served.failed < MaxFailures
    /\ served' = [served EXCEPT !.failed = @ + 1]
    /\ resp' = [kind |-> "vote", status |-> 500, key |-> w.key, success |-> FALSE]
    /\ pending' = pending (-) One(w)
    /\ UNCHANGED <<now, tables, history, scorer>>

NextVoteStore ==
  \/ Tick
  \/ \E ip \in IPs, ua \in {UA_Curl, UA_Browser}, param \in ServerParams :
        VoteRequest(ip, ua, param)
  \/ ExecIncVotes
  \/ ExecSelectVotes
  \/ FailIncVotes
  \/ FailSelectVotes

SpecVoteStore == Init /\ [][NextVoteStore]_vars

\* the statements of the vote for a key that are still to execute
InFlight(key) == {w \in VoteStatements : w.key = key}

\* C24: a vote request that ends denied, failed or aborted leaves no consumed
\* vote window: once the handler of a vote is through, a vote-window record for
\* (server, fingerprint, day) exists only if the vote was carried out, that is
\* the server exists, its counter was incremented and the request was answered
\* with success.
C24_NoStrayWindow ==
  \A v \in votes :
    LET key == <<v.server_id, v.voter_hash, v.voted_date>>
    IN  InFlight(key) = {}
          => /\ v.server_id \in DOMAIN servers
             /\ servers[v.server_id] >= 1
             /\ Count(key, "accepted") = 1

\* the counter increments issued for a server and not yet executed
QueuedIncrements(id) ==
  BagCardinality([w \in {x \in BagToSet(pending) :
                           x.op = "incVotes" /\ x.server_id = id} |-> pending[w]])

\* C30: vote counter consistency: whatever vote requests were made (accepted,
\* denied, for existing or non-existing server ids, with or without store
\* errors), every server's counter, with the increments still to execute, has
\* grown by exactly the number of vote-window records inserted for that server
\* (both start at 0), and every request answered with success corresponds to
\* exactly one inserted record and one increment of its server's counter.
C30_CounterMatchesWindows ==
  /\ \A id \in DOMAIN servers :
       servers[id] + QueuedIncrements(id) = Cardinality({v \in votes : v.server_id = id})
  /\ \A key \in DOMAIN tally :
       /\ Count(key, "accepted") <= 1
       /\ Count(key, "accepted") = 1
            => /\ \E v \in votes : <<v.server_id, v.voter_hash, v.voted_date>> = key
               /\ key[1] \in DOMAIN servers
               /\ servers[key[1]] >= 1

\* the security-event inserts a step adds to the queue
EventsIssued == {w \in BagToSet(pending' (-) pending) : w.op = "logEvent"}

\* the row the event insert of a pipeline outcome would write
OutcomeEvent(eventType, severity) ==
  [op |-> "logEvent", ip_address |-> resp'.ip, user_id |-> 0,
   event_type |-> eventType, severity |-> severity]

\* C25: each pipeline decision appends the security event of its outcome and no
\* other: Reject issues exactly one insert of a blocked_request/high event,
\* ChallengeRequired exactly one bot_detected/high, Flag exactly one
\* suspicious_behavior/medium, Allow none, and the step itself leaves the event
\* log alone; the log only ever grows, by the one row of one queued insert at a
\* time, so no event is updated or deleted.
C25_OneEventPerOutcome ==
  [][/\ served'.pipeline = served.pipeline + 1
          => /\ security_events' = security_events
             /\ \A w \in EventsIssued : CopiesIn(w, pending' (-) pending) = 1
             /\ IF resp'.status = 403
                  THEN EventsIssued = {OutcomeEvent("blocked_request", "high")}
                ELSE IF resp'.status = 429
                  THEN EventsIssued = {OutcomeEvent("bot_detected", "high")}
                ELSE IF resp'.suspicious
                  THEN EventsIssued = {OutcomeEvent("suspicious_behavior", "medium")}
                ELSE resp'.next /\ EventsIssued = {}
     /\ security_events' # security_events
          => \E w \in BagToSet(pending) :
               /\ w.op = "logEvent"
               /\ pending' = pending (-) One(w)
               /\ security_events' = security_events (+) One(
                    [ip_address |-> w.ip_address, user_id |-> w.user_id,
                     event_type |-> w.event_type, severity |-> w.severity])]_vars

\* a flagged request went on to its handler and its suspicious_behavior event,
\* the only event there is, has been written
C25_Witness ==
  /\ resp.kind = "pipeline"
  /\ resp.next
  /\ resp.suspicious
  /\ BagCardinality(security_events) = 1
  /\ \E e \in BagToSet(security_events) :
       /\ e.event_type = "suspicious_behavior"
       /\ e.severity = "medium"
       /\ e.ip_address = resp.ip

\* the reputation updates a step adds to the queue
ScoresIssued == {w \in BagToSet(pending' (-) pending) : w.op = "upsertScore"}

\* C26: the blacklist check precedes scoring and has no side effect on the
\* allow path: a request rejected as blacklisted has no score computed and no
\* reputation update issued, so every reputation record stays as it is; a check
\* that finds the address not blocked changes no blacklist entry, deletes no
\* expired entry and appends no event of its own (no blocked_request event, and
\* no event at all when the request is then allowed).
C26_CheckBeforeScoring ==
  [][served'.pipeline = served.pipeline + 1
       => /\ bot_scores' = bot_scores
          /\ ip_blacklist' = ip_blacklist
          /\ IF resp'.blacklisted
               THEN /\ resp'.status = 403
                    /\ resp'.botScore = NULL
                    /\ ScoresIssued = {}
               ELSE /\ \A w \in EventsIssued : w.event_type # "blocked_request"
                    /\ (resp'.next /\ ~resp'.suspicious) => EventsIssued = {}
                    /\ ScoresIssued # {}]_vars

\* an address was rejected while its blacklist entry was in force and let
\* through after the entry expired: the expired entry is still in the table and
\* the one reputation record counts the second request only
C26_Witness ==
  /\ resp.kind = "pipeline"
  /\ ~resp.blacklisted
  /\ resp.next
  /\ resp.ip \in DOMAIN ip_blacklist
  /\ ip_blacklist[resp.ip].blocked_until # NULL
  /\ \E e \in BagToSet(security_events) :
       e.event_type = "blocked_request" /\ e.ip_address = resp.ip
  /\ BagToSet(pending) = {}
  /\ DOMAIN bot_scores = {<<resp.ip, resp.req.ua>>}
  /\ bot_scores[<<resp.ip, resp.req.ua>>].request_count = 1

\* C27: in every state reached through pipeline requests and challenge
\* verifications every reputation record holds a score between 0 and 100
\* inclusive; from one state to the next no record is deleted and no record's
\* request count or suspicious-pattern count decreases.
C27_ReputationRecordBounds ==
  /\ [](\A key \in DOMAIN bot_scores :
          bot_scores[key].bot_score >= 0 /\ bot_scores[key].bot_score <= 100)
  /\ [][/\ DOMAIN bot_scores \subseteq DOMAIN bot_scores'
        /\ \A key \in DOMAIN bot_scores :
             /\ bot_scores'[key].request_count >= bot_scores[key].request_count
             /\ bot_scores'[key].suspicious_patterns
                  >= bot_scores[key].suspicious_patterns]_vars

\* an amnesty has taken a record that scored 20 down to 0, its counts kept,
\* while a record of the other address holds the full score of 100
C27_Witness ==
  \E low \in DOMAIN bot_scores, high \in DOMAIN bot_scores :
    /\ bot_scores[low].bot_score = 0
    /\ bot_scores[low].request_count = 1
    /\ bot_scores[high].bot_score = 100
    /\ bot_scores[high].suspicious_patterns = 1

(***************************************************************************)
(* Failed verifications next to reputation records, under a moving clock   *)
(***************************************************************************)
NextRetry ==
  \/ Tick
  \/ \E ip \in IPs : botDetectionMiddleware(ip, ReqShort)
  \/ ExecUpsertScore
  \/ ExecLogEvent
  \/ captcha_challenges = <<>> /\ createCaptchaChallenge(IP_A, 20, "+", 20)
  \/ \E challengeId \in ChallengeIds, solution \in Submissions :
        VerifyRequest(IP_A, challengeId, solution)
  \/ ExecSetSolved
  \/ \E w \in BagToSet(pending) : ExecAmnesty(w)

SpecRetry == Init /\ [][NextRetry]_vars

\* C28: a verify call that returns false changes no state: whether the
\* challenge is missing, expired, already solved or valid but answered wrongly,
\* the step changes no challenge and no reputation record and queues no
\* statement that would, so whatever answer would verify before the call
\* verifies after it (a valid challenge answered wrongly stays verifiable until
\* it is solved or expires); and a solved flag that is true never returns to
\* false.
C28_FalseVerifyChangesNothing ==
  [][/\ (served'.verify = served.verify + 1 /\ ~resp'.valid)
          => /\ captcha_challenges' = captcha_challenges
             /\ bot_scores' = bot_scores
             /\ pending' = pending
             /\ \A id \in ChallengeIds, solution \in {x \in Submissions : ~Falsy(x)} :
                  verifyCaptcha(id, solution)' = verifyCaptcha(id, solution)
     /\ \A id \in DOMAIN captcha_challenges :
          captcha_challenges[id].solved = 1
            => id \in DOMAIN captcha_challenges' /\ captcha_challenges'[id].solved = 1]_vars

\* an unexpired, unsolved challenge was answered wrongly: the answer was refused,
\* the challenge still verifies with the right answer and the address's
\* reputation record still holds its score of 60
C28_Witness ==
  /\ resp.kind = "verify"
  /\ ~resp.valid
  /\ resp.called
  /\ resp.existed
  /\ ~resp.answered
  /\ verifyCaptcha(resp.challengeId, [t |-> "string", s |-> <<"4", "0">>])
  /\ BagToSet(pending) = {}
  /\ <<IP_A, UA_Short>> \in DOMAIN bot_scores
  /\ bot_scores[<<IP_A, UA_Short>>].bot_score = 60

(***************************************************************************)
(* The pipeline's decision against the contents of the reputation store    *)
(***************************************************************************)
\* requests of every band from both addresses while the store's records are
\* created, replaced and lowered by an amnesty, and an administrator may
\* blacklist one address
NextDecide ==
  \/ \E session \in Sessions : AdminBlacklist(session, IP_A, "abuse", 0)
  \/ \E ip \in IPs, req \in ReputationRequests : botDetectionMiddleware(ip, req)
  \/ ExecUpsertScore
  \/ ExecLogEvent
  \/ captcha_challenges = <<>> /\ \E ip \in IPs : createCaptchaChallenge(ip, 20, "+", 20)
  \/ \E ip \in IPs : VerifyRequest(ip, 1, [t |-> "string", s |-> <<"4", "0">>])
  \/ ExecSetSolved
  \/ \E w \in BagToSet(pending) : ExecAmnesty(w)

SpecDecide == Init /\ [][NextDecide]_vars

\* what the pipeline decided for a request
Outcome(r) ==
  [status |-> r.status, code |-> r.code, next |-> r.next,
   suspicious |-> r.suspicious, botScore |-> r.botScore]

\* C29: the pipeline's decision for a request is a function of the address's
\* blacklist status and of that request's headers, method and path only: when
\* a request follows one with the same headers, method and path and the same
\* blacklist status, it gets the same outcome, whatever the reputation store
\* came to hold in between (a record created or replaced, counts raised, an
\* amnesty applied).
C29_DecisionIgnoresStore ==
  [][(/\ served'.pipeline = served.pipeline + 1
      /\ resp.kind = "pipeline"
      /\ resp'.req = resp.req
      /\ resp'.blacklisted = resp.blacklisted)
       => Outcome(resp') = Outcome(resp)]_vars

\* a request was flagged at 60 again although an amnesty had lowered the stored
\* score of its key to 30 after the first request
C29_Witness ==
  /\ resp.kind = "pipeline"
  /\ served.pipeline = 2
  /\ resp.suspicious
  /\ resp.botScore = <<60>>
  /\ LET key == <<resp.ip, resp.req.ua>>
     IN  /\ key \in DOMAIN bot_scores
         /\ bot_scores[key].bot_score = 30
         /\ bot_scores[key].request_count = 1
         /\ QueuedUpdates(key) = 1
====
